---- MODULE Spec2Model ----
(***************************************************************************)
(* State-machine model of the RealPNL Telegram bot (src/main.py).          *)
(*                                                                         *)
(* Strings the code inspects character by character (message text,         *)
(* usernames, exception texts, descriptions) are sequences of one-         *)
(* character strings.  Fixed reply texts are records tagged by "kind".     *)
(* Every external call (message.answer, callback.answer, bot.get_chat) is  *)
(* recorded in the per-invocation history calls[i], with its outcome.      *)
(***************************************************************************)
EXTENDS Integers, Sequences, FiniteSets, TLC

VARIABLES BOT_TOKEN, MINI_APP_URL, mainPc, bot, updates, platformChats,
          platformFaults, pc, username, chat, response, exc, calls, log

vars == <<BOT_TOKEN, MINI_APP_URL, mainPc, bot, updates, platformChats,
          platformFaults, pc, username, chat, response, exc, calls, log>>

\* ------------------------------------------------------------------ bounds
\* longest text following the /verify keyword
MaxTail == 4
\* most updates the dispatcher handles concurrently in one run
MaxUpdates == 2
\* most fragments concatenated into one exception text
MaxFrags == 2
\* how far a description may exceed the truncation limit
MaxOver == 3

\* -------------------------------------------------------- program constants
\* chat.description[:100] / len(chat.description) > 100
DescLimit == 100

\* ------------------------------------------------------------ Python strings
\* str.split() / str.strip() whitespace that occurs in the modelled texts
Whitespace == {" ", "\n"}

\* characters that may follow the command keyword
TailChars == {" ", "\n", "@", "a"}

RECURSIVE LStrip(_)
LStrip(s) == IF s # <<>> /\ Head(s) \in Whitespace THEN LStrip(Tail(s)) ELSE s

RECURSIVE RStrip(_)
RStrip(s) ==
  IF s # <<>> /\ s[Len(s)] \in Whitespace
  THEN RStrip(SubSeq(s, 1, Len(s) - 1))
  ELSE s

\* str.strip()
Strip(s) == RStrip(LStrip(s))

\* index of the first whitespace character of s, Len(s)+1 when there is none
FirstSpace(s) ==
  IF \E k \in 1..Len(s) : s[k] \in Whitespace
  THEN CHOOSE k \in 1..Len(s) :
         /\ s[k] \in Whitespace
         /\ \A j \in 1..(k - 1) : s[j] \notin Whitespace
  ELSE Len(s) + 1

\* a split that cuts at the first whitespace character only and keeps what
\* follows it, runs of whitespace included (str.split(" ", 1) behaviour)
SplitMax1Literal(s) ==
  LET k == FirstSpace(s)
  IN  IF k > Len(s) THEN <<s>>
      ELSE <<SubSeq(s, 1, k - 1), SubSeq(s, k + 1, Len(s))>>

\* str.split(maxsplit=1): leading whitespace is skipped, the first word is cut
\* at the first whitespace run, the remainder loses its leading whitespace
\* only, and an empty remainder is not returned
SplitMax1(s) ==
  LET s1   == LStrip(s)
      k    == FirstSpace(s1)
      rest == LStrip(SubSeq(s1, k, Len(s1)))
  IN  IF s1 = <<>> THEN <<>>
      ELSE IF rest = <<>> THEN <<SubSeq(s1, 1, k - 1)>>
      ELSE <<SubSeq(s1, 1, k - 1), rest>>

\* str.startswith("@")
StartsWithAt(s) == s # <<>> /\ s[1] = "@"

RECURSIVE LStripAt(_)
\* str.lstrip("@"): removes every leading "@"
LStripAt(s) == IF StartsWithAt(s) THEN LStripAt(Tail(s)) ELSE s

\* lines 132-133: if username.startswith("@"): username = username[1:]
RemoveAt(s) == IF StartsWithAt(s) THEN Tail(s) ELSE s

\* upper-case letters that occur in the modelled exception texts
LowerChar(c) ==
  CASE c = "B" -> "b" [] c = "R" -> "r" [] c = "C" -> "c" [] c = "H" -> "h"
    [] c = "A" -> "a" [] c = "T" -> "t" [] c = "N" -> "n" [] c = "O" -> "o"
    [] c = "F" -> "f" [] c = "U" -> "u" [] c = "D" -> "d" [] c = "E" -> "e"
    [] c = "Q" -> "q" [] c = "S" -> "s"
    [] OTHER -> c

\* str.lower()
Lower(s) == [k \in 1..Len(s) |-> LowerChar(s[k])]

\* needle in s
Contains(s, needle) ==
  \E k \in 1..(Len(s) - Len(needle) + 1) :
     SubSeq(s, k, k + Len(needle) - 1) = needle

ChatNotFound == <<"c", "h", "a", "t", " ", "n", "o", "t", " ", "f", "o", "u", "n", "d">>
BadRequest == <<"b", "a", "d", " ", "r", "e", "q", "u", "e", "s", "t">>
Ellipsis == <<".", ".", ".">>

\* the test of line 173 without the lower-casing of line 171
IsNotFoundNoLower(e) == Contains(e, ChatNotFound) \/ Contains(e, BadRequest)

\* lines 171-173: error_msg = str(e).lower(); "chat not found" in error_msg
\* or "bad request" in error_msg
IsNotFound(e) ==
  LET error_msg == Lower(e)
  IN  Contains(error_msg, ChatNotFound) \/ Contains(error_msg, BadRequest)

\* truncation that also cuts a description of exactly DescLimit characters
TruncateInclusive(d) ==
  IF Len(d) >= DescLimit THEN SubSeq(d, 1, DescLimit) \o Ellipsis ELSE d

\* line 158: chat.description[:100] + "..." if len(chat.description) > 100
\* else chat.description
Truncate(d) ==
  IF Len(d) > DescLimit THEN SubSeq(d, 1, DescLimit) \o Ellipsis ELSE d

\* ------------------------------------------------------------- input values
\* os.getenv of an unset variable, an absent title, type or bot
None == "None"

VerifyKeyword == <<"/", "v", "e", "r", "i", "f", "y">>
StartKeyword == <<"/", "s", "t", "a", "r", "t">>
UploadKeyword == <<"/", "u", "p", "l", "o", "a", "d">>
ReportKeyword == <<"/", "r", "e", "p", "o", "r", "t">>
HelpKeyword == <<"/", "h", "e", "l", "p">>
\* a message none of the filters matches
PlainText == <<"h", "e", "l", "l", "o">>

\* every text of at most MaxTail characters that can follow the keyword
Tails == UNION {[1..n -> TailChars] : n \in 0..MaxTail}

Message(t) == [type |-> "message", text |-> t, data |-> ""]
Callback(d) == [type |-> "callback_query", text |-> <<>>, data |-> d]

OtherUpdates ==
  {Message(StartKeyword), Message(UploadKeyword), Message(ReportKeyword),
   Message(HelpKeyword), Message(PlainText),
   Callback("help"), Callback("verify_help")}

AllUpdates == {Message(VerifyKeyword \o t) : t \in Tails} \cup OtherUpdates

SmallUpdates ==
  {Message(VerifyKeyword), Message(VerifyKeyword \o <<" ", "@", "a">>),
   Message(VerifyKeyword \o <<" ", "a", "a">>)} \cup OtherUpdates

\* pieces of the error texts the platform client raises
Fragments ==
  { <<"B", "a", "d", " ", "R", "e", "q", "u", "e", "s", "t", ":", " ">>,
    <<"c", "h", "a", "t", " ", "n", "o", "t", " ">>,
    <<"f", "o", "u", "n", "d">>,
    <<"C", "H", "A", "T", " ", "N", "O", "T", " ", "F", "O", "U", "N", "D">>,
    <<"F", "o", "r", "b", "i", "d", "d", "e", "n", ":", " ">>,
    <<"t", "i", "m", "e", "o", "u", "t">> }

RECURSIVE Texts(_)
\* every concatenation of at most n fragments
Texts(n) ==
  IF n = 0 THEN {<<>>}
  ELSE Texts(n - 1) \cup {t \o f : t \in Texts(n - 1), f \in Fragments}

Exceptions == Texts(MaxFrags)

SmallFaults ==
  { <<"B", "a", "d", " ", "R", "e", "q", "u", "e", "s", "t", ":", " ">>,
    <<"t", "i", "m", "e", "o", "u", "t">> }

\* a description of n characters; position DescLimit and the positions after
\* it differ from each other and from the ellipsis
Description(n) ==
  [k \in 1..n |-> IF k < DescLimit THEN "d"
                  ELSE IF k = DescLimit THEN "e" ELSE "f"]

Descriptions ==
  {[present |-> FALSE, text |-> <<>>]} \cup
  {[present |-> TRUE, text |-> Description(n)] : n \in 0..(DescLimit + MaxOver)}

Chats ==
  {[type |-> ty, title |-> ti, description |-> d] :
     ty \in {"channel", None}, ti \in {"DexScreener", None}, d \in Descriptions}

SmallChats ==
  {[type |-> "channel", title |-> "DexScreener",
    description |-> [present |-> TRUE, text |-> Description(2)]]}

NoChat == [type |-> None, title |-> None,
           description |-> [present |-> FALSE, text |-> <<>>]]

\* ------------------------------------------------------------- reply texts
DefaultUrl == "https://logiccrafterdz.github.io/realpnl/"

\* os.getenv(name, default)
Getenv(value, default) == IF value = None THEN default ELSE value

WebAppButton(label, url) == [text |-> label, web_app |-> url, callback_data |-> None]
CallbackButton(label, d) == [text |-> label, web_app |-> None, callback_data |-> d]

ConfigError == [kind |-> "config_error", keyboard |-> <<>>]
Welcome(url) ==
  [kind |-> "welcome",
   keyboard |-> <<WebAppButton("Upload CSV", url),
                  CallbackButton("Verify Bot/Channel", "verify_help"),
                  CallbackButton("Help", "help")>>]
UploadMenu(url) ==
  [kind |-> "upload", keyboard |-> <<WebAppButton("Open Trade Analyzer", url)>>]
ReportMenu(url) ==
  [kind |-> "your_report", keyboard |-> <<WebAppButton("Open Report", url)>>]
Usage == [kind |-> "usage"]
Checking(name) == [kind |-> "checking", name |-> name]
CannotVerify(name) == [kind |-> "cannot_verify", name |-> name]
ErrorChecking(name) == [kind |-> "error_checking", name |-> name]
HelpText == [kind |-> "help"]
VerifyHelpText == [kind |-> "verify_help"]

\* str.capitalize() of the chat types
Capitalize(t) == IF t = "channel" THEN "Channel" ELSE t

\* lines 146-166: the verification report built from the fetched chat
Report(name, c) ==
  [kind   |-> "report",
   name   |-> name,
   status |-> "Active",
   type   |-> IF c.type # None THEN Capitalize(c.type) ELSE "Unknown",
   title  |-> IF c.title # None THEN c.title ELSE "N/A",
   hasBio |-> c.description.present /\ c.description.text # <<>>,
   bio    |-> IF c.description.present /\ c.description.text # <<>>
              THEN Truncate(c.description.text) ELSE <<>>]

\* ------------------------------------------------------------------- state
Invocations == DOMAIN updates

\* the run starts with k updates from U waiting at the platform, which answers
\* lookups with a chat of C or an error of F
InitWith(U, k, C, F) ==
  /\ BOT_TOKEN \in {None, "", "123:abc"}
  /\ MINI_APP_URL \in {None, "", "https://app.example/"}
  /\ mainPc = "start"
  /\ bot = None
  /\ updates \in UNION {[1..n -> U] : n \in 1..k}
  /\ platformChats = C
  /\ platformFaults = F
  /\ pc = [i \in DOMAIN updates |-> "pending"]
  /\ username = [i \in DOMAIN updates |-> <<>>]
  /\ chat = [i \in DOMAIN updates |-> NoChat]
  /\ response = [i \in DOMAIN updates |-> Usage]
  /\ exc = [i \in DOMAIN updates |-> <<>>]
  /\ calls = [i \in DOMAIN updates |-> <<>>]
  /\ log = <<>>

Init ==
  \/ InitWith(AllUpdates, 1, SmallChats, SmallFaults)
  \/ InitWith(SmallUpdates, 1, SmallChats, Exceptions)
  \/ InitWith(SmallUpdates, 1, Chats, SmallFaults)
  \/ InitWith(SmallUpdates, MaxUpdates, SmallChats, SmallFaults)

envVars == <<BOT_TOKEN, MINI_APP_URL, updates, platformChats, platformFaults>>

\* --------------------------------------------------------------------- main
\* lines 284-288: BOT_TOKEN absent or empty, main() raises before polling
MainRaises ==
  /\ mainPc = "start"
  /\ BOT_TOKEN \in {None, ""}
  /\ mainPc' = "raised"
  /\ UNCHANGED <<envVars, bot, pc, username, chat, response, exc, calls, log>>

\* lines 291-301: the bot is constructed and polling starts
MainStartPolling ==
  /\ mainPc = "start"
  /\ BOT_TOKEN \notin {None, ""}
  /\ bot' = "Bot"
  /\ mainPc' = "polling"
  /\ UNCHANGED <<envVars, pc, username, chat, response, exc, calls, log>>

\* the first word of a message, which the command filters compare
Command(u) ==
  LET words == SplitMax1(u.text)
  IN  IF u.type = "message" /\ words # <<>> THEN words[1] ELSE <<>>

\* the handler the router's filters select for an update
Route(u) ==
  IF u.type = "callback_query"
  THEN IF u.data = "help" THEN "callback_help"
       ELSE IF u.data = "verify_help" THEN "callback_verify_help"
       ELSE "ignored"
  ELSE IF Command(u) = StartKeyword THEN "cmd_start"
  ELSE IF Command(u) = UploadKeyword THEN "cmd_upload"
  ELSE IF Command(u) = VerifyKeyword THEN "cmd_verify"
  ELSE IF Command(u) = ReportKeyword THEN "cmd_report"
  ELSE IF Command(u) = HelpKeyword THEN "cmd_help"
  ELSE "ignored"

\* the dispatcher starts the handler of a polled update
Dispatch(i) ==
  /\ mainPc = "polling"
  /\ pc[i] = "pending"
  /\ pc' = [pc EXCEPT ![i] = Route(updates[i])]
  /\ UNCHANGED <<envVars, mainPc, bot, username, chat, response, exc, calls, log>>

\* await message.answer(reply): the call is recorded; the handler goes on to
\* next when it returns and ends with the exception when it raises
Answer(i, reply, ok, next) ==
  /\ calls' = [calls EXCEPT ![i] = Append(@, [op |-> "answer", reply |-> reply, ok |-> ok])]
  /\ pc' = [pc EXCEPT ![i] = IF ok THEN next ELSE "raised"]

\* ----------------------------------------------------------- static handlers
\* lines 40-88
cmd_start(i) ==
  /\ pc[i] = "cmd_start"
  /\ LET mini_app_url == Getenv(MINI_APP_URL, DefaultUrl)
     IN  \E ok \in BOOLEAN :
           IF mini_app_url = ""
           THEN Answer(i, ConfigError, ok, "returned")
           ELSE Answer(i, Welcome(mini_app_url), ok, "returned")
  /\ UNCHANGED <<envVars, mainPc, bot, username, chat, response, exc, log>>

\* lines 92-112
cmd_upload(i) ==
  /\ pc[i] = "cmd_upload"
  /\ LET mini_app_url == Getenv(MINI_APP_URL, DefaultUrl)
     IN  \E ok \in BOOLEAN : Answer(i, UploadMenu(mini_app_url), ok, "returned")
  /\ UNCHANGED <<envVars, mainPc, bot, username, chat, response, exc, log>>

\* lines 191-211
cmd_report(i) ==
  /\ pc[i] = "cmd_report"
  /\ LET mini_app_url == Getenv(MINI_APP_URL, DefaultUrl)
     IN  \E ok \in BOOLEAN : Answer(i, ReportMenu(mini_app_url), ok, "returned")
  /\ UNCHANGED <<envVars, mainPc, bot, username, chat, response, exc, log>>

\* lines 242-271
send_help(i, ok, next) == Answer(i, HelpText, ok, next)

\* lines 215-217
cmd_help(i) ==
  /\ pc[i] = "cmd_help"
  /\ \E ok \in BOOLEAN : send_help(i, ok, "returned")
  /\ UNCHANGED <<envVars, mainPc, bot, username, chat, response, exc, log>>

\* line 223
callback_help(i) ==
  /\ pc[i] = "callback_help"
  /\ \E ok \in BOOLEAN : send_help(i, ok, "callback_help_answer")
  /\ UNCHANGED <<envVars, mainPc, bot, username, chat, response, exc, log>>

\* a verify-help callback that goes through send_help
callback_verify_help_shared(i) ==
  /\ pc[i] = "callback_verify_help"
  /\ \E ok \in BOOLEAN : send_help(i, ok, "callback_verify_help_answer")
  /\ UNCHANGED <<envVars, mainPc, bot, username, chat, response, exc, log>>

\* lines 230-238
callback_verify_help(i) ==
  /\ pc[i] = "callback_verify_help"
  /\ \E ok \in BOOLEAN : Answer(i, VerifyHelpText, ok, "callback_verify_help_answer")
  /\ UNCHANGED <<envVars, mainPc, bot, username, chat, response, exc, log>>

\* lines 224 and 239: await callback.answer()
callback_answer(i) ==
  /\ pc[i] \in {"callback_help_answer", "callback_verify_help_answer"}
  /\ \E ok \in BOOLEAN :
       /\ calls' = [calls EXCEPT ![i] = Append(@, [op |-> "callback_answer", ok |-> ok])]
       /\ pc' = [pc EXCEPT ![i] = IF ok THEN "returned" ELSE "raised"]
  /\ UNCHANGED <<envVars, mainPc, bot, username, chat, response, exc, log>>

\* --------------------------------------------------------------- cmd_verify
\* lines 120-127: no argument, the usage text is the only reply
verify_usage(i) ==
  /\ pc[i] = "cmd_verify"
  /\ LET args == SplitMax1(updates[i].text)
     IN  /\ Len(args) < 2
         /\ \E ok \in BOOLEAN : Answer(i, Usage, ok, "returned")
  /\ UNCHANGED <<envVars, mainPc, bot, username, chat, response, exc, log>>

\* lines 120-135: the argument is normalised and acknowledged
verify_checking(i) ==
  /\ pc[i] = "cmd_verify"
  /\ LET args == SplitMax1(updates[i].text)
     IN  /\ Len(args) >= 2
         /\ username' = [username EXCEPT ![i] = RemoveAt(Strip(args[2]))]
  /\ \E ok \in BOOLEAN : Answer(i, Checking(username'[i]), ok, "get_chat")
  /\ UNCHANGED <<envVars, mainPc, bot, chat, response, exc, log>>

\* line 139: bot.get_chat(f"@{username}") is called
verify_get_chat(i) ==
  /\ pc[i] = "get_chat"
  /\ bot # None
  /\ calls' = [calls EXCEPT ![i] = Append(@, [op |-> "get_chat", id |-> <<"@">> \o username[i]])]
  /\ pc' = [pc EXCEPT ![i] = "await_get_chat"]
  /\ UNCHANGED <<envVars, mainPc, bot, username, chat, response, exc, log>>

\* lines 139-166: the lookup returns a chat and the report is built
verify_chat_returned(i) ==
  /\ pc[i] = "await_get_chat"
  /\ \E c \in platformChats :
       /\ chat' = [chat EXCEPT ![i] = c]
       /\ response' = [response EXCEPT ![i] = Report(username[i], c)]
  /\ calls' = [calls EXCEPT ![i] = Append(@, [op |-> "get_chat_done", ok |-> TRUE])]
  /\ pc' = [pc EXCEPT ![i] = "send_report"]
  /\ UNCHANGED <<envVars, mainPc, bot, username, exc, log>>

\* a lookup that is started again after it raised, once
verify_chat_raised_retry(i) ==
  /\ pc[i] = "await_get_chat"
  /\ \E e \in platformFaults : exc' = [exc EXCEPT ![i] = e]
  /\ calls' = [calls EXCEPT ![i] = Append(@, [op |-> "get_chat_done", ok |-> FALSE])]
  /\ pc' = [pc EXCEPT ![i] = IF Len(calls[i]) < 4 THEN "get_chat" ELSE "except"]
  /\ UNCHANGED <<envVars, mainPc, bot, username, chat, response, log>>

\* a lookup whose exception leaves the handler
verify_chat_raised_uncaught(i) ==
  /\ pc[i] = "await_get_chat"
  /\ \E e \in platformFaults : exc' = [exc EXCEPT ![i] = e]
  /\ calls' = [calls EXCEPT ![i] = Append(@, [op |-> "get_chat_done", ok |-> FALSE])]
  /\ pc' = [pc EXCEPT ![i] = "raised"]
  /\ UNCHANGED <<envVars, mainPc, bot, username, chat, response, log>>

\* lines 139, 170: the lookup raises and the except clause takes over
verify_chat_raised(i) ==
  /\ pc[i] = "await_get_chat"
  /\ \E e \in platformFaults : exc' = [exc EXCEPT ![i] = e]
  /\ calls' = [calls EXCEPT ![i] = Append(@, [op |-> "get_chat_done", ok |-> FALSE])]
  /\ pc' = [pc EXCEPT ![i] = "except"]
  /\ UNCHANGED <<envVars, mainPc, bot, username, chat, response, log>>

\* lines 168, 170: the report is sent inside the try block, so an exception
\* of the send reaches the except clause as well
verify_send_report(i) ==
  /\ pc[i] = "send_report"
  /\ \/ /\ Answer(i, response[i], TRUE, "returned")
        /\ exc' = exc
     \/ \E e \in platformFaults :
          /\ calls' = [calls EXCEPT ![i] =
                         Append(@, [op |-> "answer", reply |-> response[i], ok |-> FALSE])]
          /\ exc' = [exc EXCEPT ![i] = e]
          /\ pc' = [pc EXCEPT ![i] = "except"]
  /\ UNCHANGED <<envVars, mainPc, bot, username, chat, response, log>>

\* an except clause that takes the name from a variable shared by all
\* invocations, which holds the name of whichever invocation wrote it last
verify_except_shared(i) ==
  /\ pc[i] = "except"
  /\ \E j \in Invocations :
       /\ pc[j] \notin {"pending", "cmd_verify"}
       /\ IF IsNotFound(exc[i])
          THEN /\ \E ok \in BOOLEAN : Answer(i, CannotVerify(username[j]), ok, "returned")
               /\ log' = log
          ELSE /\ log' = Append(log, [username |-> username[j], e |-> exc[i]])
               /\ \E ok \in BOOLEAN : Answer(i, ErrorChecking(username[j]), ok, "returned")
  /\ UNCHANGED <<envVars, mainPc, bot, username, chat, response, exc>>

\* lines 170-187: the exception is classified, logged on the generic branch
\* and answered
verify_except(i) ==
  /\ pc[i] = "except"
  /\ IF IsNotFound(exc[i])
     THEN /\ \E ok \in BOOLEAN : Answer(i, CannotVerify(username[i]), ok, "returned")
          /\ log' = log
     ELSE /\ log' = Append(log, [username |-> username[i], e |-> exc[i]])
          /\ \E ok \in BOOLEAN : Answer(i, ErrorChecking(username[i]), ok, "returned")
  /\ UNCHANGED <<envVars, mainPc, bot, username, chat, response, exc>>

\* ---------------------------------------------------------------------- run
Next ==
  \/ MainRaises
  \/ MainStartPolling
  \/ \E i \in Invocations : Dispatch(i)
  \/ \E i \in Invocations : cmd_start(i)
  \/ \E i \in Invocations : cmd_upload(i)
  \/ \E i \in Invocations : cmd_report(i)
  \/ \E i \in Invocations : cmd_help(i)
  \/ \E i \in Invocations : callback_help(i)
  \/ \E i \in Invocations : callback_verify_help(i)
  \/ \E i \in Invocations : callback_answer(i)
  \/ \E i \in Invocations : verify_usage(i)
  \/ \E i \in Invocations : verify_checking(i)
  \/ \E i \in Invocations : verify_get_chat(i)
  \/ \E i \in Invocations : verify_chat_returned(i)
  \/ \E i \in Invocations : verify_chat_raised(i)
  \/ \E i \in Invocations : verify_send_report(i)
  \/ \E i \in Invocations : verify_except(i)

Spec == Init /\ [][Next]_vars

\* ------------------------------------------------------------ call histories
\* the message.answer calls of invocation i, in the order issued
Answers(i) == SelectSeq(calls[i], LAMBDA c : c.op = "answer")

\* the replies invocation i has sent
Replies(i) == [k \in 1..Len(Answers(i)) |-> Answers(i)[k].reply]

\* the bot.get_chat calls of invocation i
Lookups(i) == SelectSeq(calls[i], LAMBDA c : c.op = "get_chat")

LookupReturned(i) == \E k \in 1..Len(calls[i]) :
                        calls[i][k].op = "get_chat_done" /\ calls[i][k].ok
LookupRaised(i) == \E k \in 1..Len(calls[i]) :
                      calls[i][k].op = "get_chat_done" /\ ~calls[i][k].ok

Finished(i) == pc[i] \in {"returned", "raised"}

\* update i is a /verify message: the keyword alone or followed by whitespace
IsVerify(i) ==
  LET t == updates[i].text
  IN  /\ updates[i].type = "message"
      /\ Len(t) >= 7
      /\ SubSeq(t, 1, 7) = VerifyKeyword
      /\ (Len(t) > 7 => t[8] \in Whitespace)

\* nothing but whitespace follows the keyword
NoArgument(i) == \A k \in 8..Len(updates[i].text) : updates[i].text[k] \in Whitespace

\* the identifier a /verify message asks about: the text after the keyword
\* without surrounding whitespace, with "@" put in front unless it is there
Identifier(i) ==
  LET t == updates[i].text
      first == CHOOSE k \in 8..Len(t) :
                 t[k] \notin Whitespace /\ \A j \in 8..(k - 1) : t[j] \in Whitespace
      last  == CHOOSE k \in 8..Len(t) :
                 t[k] \notin Whitespace /\ \A j \in (k + 1)..Len(t) : t[j] \in Whitespace
      a == SubSeq(t, first, last)
  IN  IF a[1] = "@" THEN a ELSE <<"@">> \o a

ErrorKinds == {"cannot_verify", "error_checking"}

\* ------------------------------------------------------------------- claims

\* C1 (as stated): a cmd_verify invocation that has an argument and returns
\* has sent exactly two replies, the acknowledgement and then the report when
\* the lookup succeeded or one error message when the lookup failed.
C1_TwoReplies ==
  \A i \in Invocations :
    (IsVerify(i) /\ ~NoArgument(i) /\ pc[i] = "returned") =>
      /\ Len(Replies(i)) = 2
      /\ Replies(i)[1].kind = "checking"
      /\ LookupReturned(i) => Replies(i)[2].kind = "report"
      /\ LookupRaised(i) => Replies(i)[2].kind \in ErrorKinds

\* C2: a /verify message without an argument gets the usage text as its only
\* reply, never an acknowledgement, and bot.get_chat is never called; the
\* handler returns once the usage text is sent.
C2_UsageOnly ==
  \A i \in Invocations :
    (IsVerify(i) /\ NoArgument(i)) =>
      /\ Lookups(i) = <<>>
      /\ pc[i] \in {"pending", "cmd_verify", "returned", "raised"}
      /\ pc[i] \in {"pending", "cmd_verify"} => calls[i] = <<>>
      /\ Finished(i) => Replies(i) = <<Usage>> /\ Len(calls[i]) = 1
      /\ Finished(i) => (pc[i] = "returned" <=> calls[i][1].ok)

C2_Witness ==
  \E i \in Invocations :
    /\ updates[i].text = VerifyKeyword \o <<" ", "\n">>
    /\ pc[i] = "returned"
    /\ Replies(i) = <<Usage>>

\* C3: when the lookup raised, the error reply is the "Cannot verify" variant
\* exactly when the lower-cased exception text contains "chat not found" or
\* "bad request", and the "Error checking" variant otherwise; only the
\* generic variant is logged; no report is rendered.
C3_Classification ==
  /\ \A i \in Invocations :
       (LookupRaised(i) /\ Len(Replies(i)) >= 2) =>
         LET lowered == Lower(exc[i])
             notFound == \/ Contains(lowered, ChatNotFound)
                         \/ Contains(lowered, BadRequest)
             logged == \E k \in 1..Len(log) :
                          log[k] = [username |-> username[i], e |-> exc[i]]
         IN  /\ Len(Replies(i)) = 2
             /\ notFound => Replies(i)[2] = CannotVerify(username[i])
             /\ ~notFound => Replies(i)[2] = ErrorChecking(username[i])
             /\ logged <=> ~notFound
             /\ \A k \in 1..Len(Replies(i)) : Replies(i)[k].kind # "report"
  /\ \A k \in 1..Len(log) :
       /\ ~Contains(Lower(log[k].e), ChatNotFound)
       /\ ~Contains(Lower(log[k].e), BadRequest)

C3_Witness ==
  \E i \in Invocations :
    /\ LookupRaised(i)
    /\ exc[i] = <<"F", "o", "r", "b", "i", "d", "d", "e", "n", ":", " ",
                  "C", "H", "A", "T", " ", "N", "O", "T", " ", "F", "O", "U", "N", "D">>
    /\ pc[i] = "returned"
    /\ Replies(i)[2].kind = "cannot_verify"

\* C4 (as stated): no exception leaves a handler, and when main() raises no
\* update is dispatched.
C4_NoEscape ==
  /\ \A i \in Invocations : pc[i] # "raised"
  /\ mainPc = "raised" => \A i \in Invocations : pc[i] = "pending"

\* C4 (amended): an exception of the lookup or of the report send is caught
\* in cmd_verify and answered with an error reply, after which the handler
\* returns if that reply was sent; the only exceptions that leave a handler
\* are those of a reply outside the try block or of callback.answer; main()
\* raises exactly when BOT_TOKEN is absent or empty, and then no update is
\* dispatched.
C4_Amended ==
  /\ \A i \in Invocations :
       /\ pc[i] = "raised" =>
            LET c == calls[i][Len(calls[i])]
            IN  /\ c.op \in {"answer", "callback_answer"}
                /\ ~c.ok
                /\ c.op = "answer" => c.reply.kind # "report"
       /\ \A k \in 1..Len(calls[i]) :
            LET c == calls[i][k]
                caught == \/ c.op = "get_chat_done" /\ ~c.ok
                          \/ c.op = "answer" /\ ~c.ok /\ c.reply.kind = "report"
            IN  caught =>
                  \/ k = Len(calls[i]) /\ pc[i] = "except"
                  \/ /\ k + 1 = Len(calls[i])
                     /\ calls[i][k + 1].op = "answer"
                     /\ calls[i][k + 1].reply.kind \in ErrorKinds
                     /\ pc[i] = IF calls[i][k + 1].ok THEN "returned" ELSE "raised"
  /\ mainPc = "raised" =>
       /\ BOT_TOKEN \in {None, ""}
       /\ \A i \in Invocations : pc[i] = "pending" /\ calls[i] = <<>>
  /\ BOT_TOKEN \in {None, ""} => mainPc # "polling"

C4_Witness ==
  \E i \in Invocations :
    /\ LookupRaised(i)
    /\ pc[i] = "returned"
    /\ Replies(i)[2].kind = "error_checking"

\* C5 (as stated): a finished cmd_verify invocation has called bot.get_chat
\* exactly once when an argument was supplied and not at all otherwise.
C5_ExactlyOnce ==
  \A i \in Invocations :
    (IsVerify(i) /\ Finished(i)) =>
      Len(Lookups(i)) = IF NoArgument(i) THEN 0 ELSE 1

\* C5 (amended): bot.get_chat is called at most once per invocation and a
\* failed lookup is never retried; a finished cmd_verify invocation has
\* called it exactly once when an argument was supplied and the
\* acknowledgement send did not raise, and not at all otherwise.
C5_Amended ==
  \A i \in Invocations :
    /\ Len(Lookups(i)) <= 1
    /\ ~IsVerify(i) => Lookups(i) = <<>>
    /\ (IsVerify(i) /\ Finished(i)) =>
         (Len(Lookups(i)) = 1 <=> (~NoArgument(i) /\ calls[i][1].ok))

C5_Witness ==
  \E i \in Invocations :
    /\ LookupRaised(i)
    /\ Finished(i)
    /\ Len(Lookups(i)) = 1

\* C6: the identifier looked up is "@" followed by the argument without
\* surrounding whitespace and without one leading "@": "@a" and "a" both
\* look up "@a", "@@a" looks up "@@a"; the acknowledgement and the final
\* reply carry the same name.
C6_Normalized ==
  \A i \in Invocations :
    (IsVerify(i) /\ ~NoArgument(i)) =>
      /\ \A k \in 1..Len(Lookups(i)) : Lookups(i)[k].id = Identifier(i)
      /\ \A k \in 1..Len(Replies(i)) :
           <<"@">> \o Replies(i)[k].name = Identifier(i)
      /\ Len(Replies(i)) >= 1 => Replies(i)[1].kind = "checking"

C6_Witness ==
  \E i \in Invocations :
    /\ updates[i].text = VerifyKeyword \o <<" ", "@", "@", "a">>
    /\ Len(Lookups(i)) = 1
    /\ Lookups(i)[1].id = <<"@", "@", "a">>
    /\ Len(Replies(i)) = 2
    /\ Replies(i)[1].name = <<"@", "a">>
    /\ Replies(i)[2].name = <<"@", "a">>

\* C7: the report shows the first 100 characters of the description and
\* "..." when the description is longer than 100, the description unchanged
\* when it has 1 to 100 characters, and no description line when the
\* description is absent or empty.
C7_Description ==
  \A i \in Invocations :
    \A k \in 1..Len(Replies(i)) :
      Replies(i)[k].kind = "report" =>
        LET r == Replies(i)[k]
            d == chat[i].description
        IN  /\ (~d.present \/ Len(d.text) = 0) => ~r.hasBio
            /\ (d.present /\ Len(d.text) \in 1..100) =>
                 r.hasBio /\ r.bio = d.text
            /\ (d.present /\ Len(d.text) > 100) =>
                 /\ r.hasBio
                 /\ Len(r.bio) = 103
                 /\ \A j \in 1..100 : r.bio[j] = d.text[j]
                 /\ \A j \in 101..103 : r.bio[j] = "."

C7_Witness ==
  \E i \in Invocations :
    /\ Len(chat[i].description.text) = 100
    /\ pc[i] = "returned"
    /\ Replies(i)[2].kind = "report"
    /\ Replies(i)[2].bio = chat[i].description.text

\* C8 (as stated): /help, the "help" callback and the "verify_help" callback
\* all reply with the help text of send_help.
C8_SameHelp ==
  \A i \in Invocations :
    (\/ updates[i].text = HelpKeyword
     \/ updates[i].data \in {"help", "verify_help"}) =>
      \A k \in 1..Len(Replies(i)) : Replies(i)[k] = HelpText

\* C8 (amended): /help and the "help" callback reply with the help text of
\* send_help; the "verify_help" callback replies with its own text on how to
\* verify, which is not the help text.
C8_Amended ==
  \A i \in Invocations :
    /\ (updates[i].text = HelpKeyword \/ updates[i].data = "help") =>
         /\ \A k \in 1..Len(Replies(i)) : Replies(i)[k] = HelpText
         /\ Finished(i) => Len(Replies(i)) = 1
    /\ updates[i].data = "verify_help" =>
         /\ \A k \in 1..Len(Replies(i)) :
              Replies(i)[k] = VerifyHelpText /\ Replies(i)[k] # HelpText
         /\ Finished(i) => Len(Replies(i)) = 1

C8_Witness ==
  \E i \in Invocations :
    /\ updates[i].data = "help"
    /\ pc[i] = "returned"
    /\ Replies(i) = <<HelpText>>

\* C9 (as stated): cmd_start, cmd_upload and cmd_report reply with the
\* configuration error and build no button when MINI_APP_URL is empty, and
\* with their normal menu, once, when it is not.
C9_ConfigError ==
  \A i \in Invocations :
    (/\ updates[i].text \in {StartKeyword, UploadKeyword, ReportKeyword}
     /\ Finished(i)) =>
      /\ Len(Replies(i)) = 1
      /\ MINI_APP_URL = "" =>
           Replies(i)[1].kind = "config_error" /\ Replies(i)[1].keyboard = <<>>
      /\ MINI_APP_URL # "" =>
           /\ Replies(i)[1].kind \in {"welcome", "upload", "your_report"}
           /\ Replies(i)[1].keyboard # <<>>

\* C10: within each cmd_verify invocation, whatever the interleaving, the
\* acknowledgement is sent before the lookup is started, the final reply is
\* sent only after the lookup has returned or raised, and the final reply
\* names the invocation's own identifier.
C10_OwnOrder ==
  \A i \in Invocations :
    \A k \in 1..Len(calls[i]) :
      LET c == calls[i][k]
      IN  /\ c.op = "get_chat" =>
               /\ k = 2
               /\ calls[i][1].op = "answer"
               /\ calls[i][1].reply.kind = "checking"
               /\ calls[i][1].ok
          /\ (c.op = "answer" /\ c.reply.kind \in {"report"} \cup ErrorKinds) =>
               /\ k >= 4
               /\ calls[i][2].op = "get_chat"
               /\ calls[i][3].op = "get_chat_done"
               /\ <<"@">> \o c.reply.name = Identifier(i)

C10_Witness ==
  \E i, j \in Invocations :
    /\ Len(Replies(i)) = 2
    /\ Replies(i)[2].kind \in {"report"} \cup ErrorKinds
    /\ pc[j] = "await_get_chat"
    /\ username[i] # username[j]

====
